---- MODULE Spec2Model ----
(***************************************************************************)
(* Session controller of the native capture module (capture.rs): the       *)
(* Tauri commands start_capture, switch_capture_target and stop_capture    *)
(* acting on the process-wide statics CAPTURE_RUNNING, CAPTURE_CONTROL,    *)
(* AUDIO_STOP_FLAG and AUDIO_THREAD_HANDLE, together with the video        *)
(* sessions and the audio loopback threads they create.                    *)
(*                                                                         *)
(* Commands are async and are run by a multi-threaded runtime, so each     *)
(* command is a process whose steps are the individual accesses to the     *)
(* statics (one atomic load/store, or one mutex-protected access).         *)
(***************************************************************************)
EXTENDS Integers, Sequences, FiniteSets, TLC

\* ---------------------------------------------------------------- bounds
\* Video capture sessions that may be live at the same time.
MaxVideo == 2
\* Audio threads that may exist at the same time (a thread that has
\* terminated and that nothing refers to any more gives its id back).
MaxAudio == 2
\* Monitors the OS reports (Monitor::enumerate).
MonitorCount == 1

\* Commands that may be in flight at the same time.
Callers == {1, 2}
AudioIds == 1..MaxAudio

\* Window handles the OS reports (Window::enumerate).
WindowHandles == {1}

\* Option::None of the three Mutex<Option<..>> statics and of the locals.
None == 0

\* A target id is a string; it is modelled as its sequence of tokens, the
\* separator ":" being a token of its own.
TargetIds ==
    { <<"window", ":", "1">>,     \* a window that exists
      <<"window", ":", "0">>,     \* well formed, no such window
      <<"window", ":", "-1">>,    \* a negative handle, no such window
      <<"monitor", ":", "0">>,    \* a monitor that exists
      <<"monitor", ":", "-1">>,   \* an index below zero
      <<"window", "1">>,          \* no colon
      <<"screen", ":", "0">>,     \* a kind that is neither window nor monitor
      <<"window", ":", "x">> }    \* handle is not a number

VARIABLES
    running,        \* CAPTURE_RUNNING
    control,        \* CAPTURE_CONTROL: "none", or the state of the stored session
    stopFlag,       \* AUDIO_STOP_FLAG: None or the id of the thread whose flag it is
    threadHandle,   \* AUDIO_THREAD_HANDLE: None or the id of the thread to join
    holder,         \* who holds each of the three mutexes (None: free)
    leaked,         \* live sessions whose control handle no longer exists
    ast,            \* state of each audio loopback thread
    aflag,          \* the stop flag (Arc<AtomicBool>) of each audio thread
    edition,        \* scope of the guard of `if let Some(x) = M.lock().unwrap().take()`
    op,             \* which command each caller is running
    pc,             \* where each command is
    lctl,           \* local `control` of the command
    lthr,           \* local `stop_flag` / `handle` of the command
    result,         \* what the command returned
    thread,         \* one audio loopback thread in detail (run_wasapi_loopback):
                    \*   tpc        where the thread is
                    \*   spawnedBy  the command that spawned it: "start" or "switch"
                    \*   capture_audio  that argument of the start_capture of the session
                    \*   cmdPid     target_process_id of that command
                    \*   targetPid  target_pid the thread was given
                    \*   plMode     <<mode_name, pid>> of run_process_loopback, or <<>>
                    \*   stopReq    the thread's stop_flag
                    \*   avail      packets waiting in the endpoint buffer, oldest first
                    \*   arrived    packets the OS has delivered so far
                    \*   log        events emitted and OS calls made, in order
                    \*   tret       what run_wasapi_loopback returned
                    \*   joined     the JoinHandle of the thread has been joined
    call,           \* the last call of a function that has no state of its own:
                    \*   fn     its name, "none" before the first call
                    \*   arguments and ret, named as in the source
    frame           \* the frame callback of one video session (CaptureHandler):
                    \*   fps              the clamped rate, 0 while the handler does not exist
                    \*   fps_interval_ms
                    \*   last_frame_time
                    \*   last_emit        time of the last capture-frame event, -1: none
                    \*   emit_gap         time between the last two events, -1: none
                    \*   clock            Instant::now(), in ms
                    \*   outcome          what happened in the last on_frame_arrived
                    \*   ret              what that call returned to the capture library

shared == <<running, control, leaked, stopFlag, threadHandle, ast, aflag>>
audioVars == <<stopFlag, threadHandle, ast, aflag, lthr>>
videoVars == <<control, leaked, lctl>>
callVars == <<op, pc, result>>
sessionVars == <<running, control, leaked, stopFlag, threadHandle, holder, ast, aflag,
                 edition, op, pc, lctl, lthr, result>>
\* What the commands on the statics leave alone.
detailVars == <<thread, frame, call>>
nonThreadVars == <<sessionVars, frame, call>>
nonFrameVars == <<sessionVars, thread, call>>
nonCallVars == <<sessionVars, thread, frame>>
vars == <<sessionVars, detailVars>>

Mutexes == {"CAPTURE_CONTROL", "AUDIO_STOP_FLAG", "AUDIO_THREAD_HANDLE"}

Results == {"none", "Ok", "AlreadyRunning", "NotRunning", "InvalidTarget",
            "TargetNotFound", "EnumerateFailed", "StartFailed", "StopFailed"}

\* ------------------------------------------------------ start_wgc_capture
\* target_id.splitn(2, ':'): the part before the first colon and the rest,
\* or the whole string when there is no colon.
RECURSIVE ColonAt(_, _)
ColonAt(s, i) ==
    IF i > Len(s) THEN 0
    ELSE IF s[i] = ":" THEN i
    ELSE ColonAt(s, i + 1)

SplitN2(s) ==
    LET c == ColonAt(s, 1) IN
    IF c = 0 THEN <<s>>
    ELSE <<SubSeq(s, 1, c - 1), SubSeq(s, c + 1, Len(s))>>

\* str::parse::<usize>() on the value part: <<n>> stands for Ok(n), <<>> for
\* Err.
DigitVal == [d \in {"0", "1", "2"} |-> CASE d = "0" -> 0 [] d = "1" -> 1 [] d = "2" -> 2]

ParseNat(v) ==
    IF Len(v) = 1 /\ v[1] \in DOMAIN DigitVal THEN <<DigitVal[v[1]]>> ELSE <<>>

\* str::parse::<isize>(): a sign is accepted.
ParseInt(v) ==
    IF Len(v) = 1 /\ v[1] = "-1" THEN <<-1>> ELSE ParseNat(v)

\* The match on target_type without its `_` arm: every kind is taken for a
\* monitor.
WgcOutcomes_anyKind(t) ==
    LET parts == SplitN2(t) IN
    IF Len(parts) # 2 THEN {"InvalidTarget"}
    ELSE LET n == ParseNat(parts[2])
         IN  IF n = <<>> THEN {"InvalidTarget"}
             ELSE IF n[1] >= MonitorCount THEN {"EnumerateFailed", "TargetNotFound"}
             ELSE {"EnumerateFailed", "StartFailed", "Ok"}

\* What start_wgc_capture can return for a target id, the OS calls
\* (enumerate, start_free_threaded) being free to fail: the set of
\* outcomes, "Ok" meaning a session was created.
WgcOutcomes(t) ==
    LET parts == SplitN2(t) IN
    IF Len(parts) # 2 THEN {"InvalidTarget"}
    ELSE LET kind == parts[1]
         IN  IF kind = <<"window">> THEN
                 LET n == ParseInt(parts[2]) IN
                 IF n = <<>> THEN {"InvalidTarget"}
                 ELSE IF n[1] \notin WindowHandles THEN {"EnumerateFailed", "TargetNotFound"}
                 ELSE {"EnumerateFailed", "StartFailed", "Ok"}
             ELSE IF kind = <<"monitor">> THEN
                 LET n == ParseNat(parts[2]) IN
                 IF n = <<>> THEN {"InvalidTarget"}
                 ELSE IF n[1] >= MonitorCount THEN {"EnumerateFailed", "TargetNotFound"}
                 ELSE {"EnumerateFailed", "StartFailed", "Ok"}
             ELSE {"InvalidTarget"}

\* ---------------------------------------------------------------- helpers
FreeAudio == {a \in AudioIds : ast[a] = "free"}
NewAudio == CHOOSE a \in FreeAudio : \A b \in FreeAudio : a <= b

\* A video session is owned by one control handle (a ControlWrapper), which
\* is in CAPTURE_CONTROL or in the local of one command; the handle is
\* written as the state of its session, "live" or "ended".
\* Number of video capture sessions that are capturing.
LiveVideo ==
    leaked + (IF control = "live" THEN 1 ELSE 0)
           + Cardinality({p \in Callers : lctl[p] = "live"})
\* Audio threads that have been spawned and have not terminated.
RunningAudio == {a \in AudioIds : ast[a] \in {"init", "loop"}}

\* Commands that are past their running check and will still create a stop
\* flag and spawn an audio thread for it.
SpawnsAhead ==
    {p \in Callers :
        pc[p] \in {"start_store_flag", "sw_take_control", "sw_stop_video",
                  "sw_take_flag", "sw_take_handle", "sw_join", "sw_store_flag"}}

AudioRoom == Cardinality(FreeAudio) > Cardinality(SpawnsAhead)

Finish(p, r) ==
    /\ pc' = [pc EXCEPT ![p] = "done"]
    /\ result' = [result EXCEPT ![p] = r]

Goto(p, l) ==
    /\ pc' = [pc EXCEPT ![p] = l]
    /\ UNCHANGED result

\* New values of the audio statics, the threads and the commands' locals.
\* A thread that has terminated and whose flag and join handle are gone
\* (dropped Arc, dropped or joined JoinHandle) no longer exists; the threads
\* that exist are numbered 1, 2, .. in the order they were created.
AudioGone(st, sf, th, lt) ==
    {a \in AudioIds : st[a] = "exited" /\ sf # a /\ th # a /\ \A p \in Callers : lt[p] # a}

\* The number a thread has once the threads in `gone` are no more.
Renumber(a, gone) ==
    IF a = None THEN None ELSE a - Cardinality({g \in gone : g < a})

\* The thread that gets number i, or None.
Source(i, st, gone) ==
    LET from == {a \in AudioIds \ gone : st[a] # "free" /\ Renumber(a, gone) = i}
    IN  IF from = {} THEN None ELSE CHOOSE a \in from : TRUE

SetAudio(st, fl, sf, th, lt) ==
    LET gone == AudioGone(st, sf, th, lt)
        src == [i \in AudioIds |-> Source(i, st, gone)]
    IN  IF gone = {}
        THEN /\ stopFlag' = sf
             /\ threadHandle' = th
             /\ lthr' = lt
             /\ ast' = st
             /\ aflag' = fl
        ELSE /\ stopFlag' = Renumber(sf, gone)
             /\ threadHandle' = Renumber(th, gone)
             /\ lthr' = [p \in Callers |-> Renumber(lt[p], gone)]
             /\ ast' = [i \in AudioIds |-> IF src[i] = None THEN "free" ELSE st[src[i]]]
             /\ aflag' = [i \in AudioIds |-> IF src[i] = None THEN FALSE ELSE fl[src[i]]]

\* Dropping a control handle does not stop its session (CaptureControl has
\* no Drop): a live one keeps capturing with nothing left to stop it.
LeakedAfterDrop(h) == IF h = "live" THEN leaked + 1 ELSE leaked

\* The guard of an `if let Some(x) = M.lock().unwrap().take() { body }` lives
\* to the end of the if-let in editions up to 2021 and is dropped before the
\* body from edition 2024 on.
HeldInBody(p) == IF edition = "e2021" THEN p ELSE None

Release(p) == [m \in Mutexes |-> IF holder[m] = p THEN None ELSE holder[m]]

\* ------------------------------------------------------------------- Init
Init ==
    /\ running = FALSE
    /\ control = "none"
    /\ leaked = 0
    /\ stopFlag = None
    /\ threadHandle = None
    /\ holder = [m \in Mutexes |-> None]
    /\ ast = [a \in AudioIds |-> "free"]
    /\ aflag = [a \in AudioIds |-> FALSE]
    /\ edition \in {"e2021", "e2024"}
    /\ op = [p \in Callers |-> "none"]
    /\ pc = [p \in Callers |-> "idle"]
    /\ lctl = [p \in Callers |-> "none"]
    /\ lthr = [p \in Callers |-> None]
    /\ result = [p \in Callers |-> "none"]
    /\ thread = [tpc |-> "unspawned", spawnedBy |-> "none", capture_audio |-> FALSE,
                 cmdPid |-> 0,
                 targetPid |-> 0, plMode |-> <<>>, stopReq |-> FALSE, avail |-> <<>>,
                 arrived |-> 0, log |-> <<>>, tret |-> "none", joined |-> FALSE,
                 completion |-> "none"]
    /\ call = [fn |-> "none"]
    /\ frame = [fps |-> 0, fps_interval_ms |-> 0, last_frame_time |-> 0, clock |-> 0,
                last_emit |-> -1, emit_gap |-> -1, outcome |-> "none", ret |-> "none"]

\* ------------------------------------------------------ steps of a command
\* let control = start_wgc_capture(app, target_id, fps).await?;
\* On success the session is running already.
Wgc(p, t, next) ==
    /\ \E o \in WgcOutcomes(t) :
          IF o = "Ok"
          THEN /\ LiveVideo < MaxVideo
               /\ lctl' = [lctl EXCEPT ![p] = "live"]
               /\ UNCHANGED <<control, leaked>>
               /\ Goto(p, next)
          ELSE /\ Finish(p, o)
               /\ UNCHANGED videoVars
    /\ UNCHANGED <<running, holder, edition, detailVars, audioVars, op>>

\* *CAPTURE_CONTROL.lock().unwrap() = Some(control);
\* The wrapper that was in the slot is dropped; its session is not stopped.
StoreControl(p) ==
    /\ holder["CAPTURE_CONTROL"] = None
    /\ control' = lctl[p]
    /\ leaked' = LeakedAfterDrop(control)
    /\ lctl' = [lctl EXCEPT ![p] = "none"]
    /\ UNCHANGED <<running, holder, edition, detailVars, audioVars, op>>

\* let stop_flag = Arc::new(AtomicBool::new(false));
\* *AUDIO_STOP_FLAG.lock().unwrap() = Some(stop_flag.clone());
StoreNewFlag(p, next) ==
    /\ holder["AUDIO_STOP_FLAG"] = None
    /\ FreeAudio # {}
    /\ SetAudio([ast EXCEPT ![NewAudio] = "unspawned"], aflag, NewAudio, threadHandle,
                [lthr EXCEPT ![p] = NewAudio])
    /\ Goto(p, next)
    /\ UNCHANGED <<running, holder, edition, detailVars, videoVars, op>>

\* let handle = std::thread::spawn(move || run_wasapi_loopback(..));
SpawnAudio(p, next) ==
    /\ SetAudio([ast EXCEPT ![lthr[p]] = "init"], aflag, stopFlag, threadHandle, lthr)
    /\ Goto(p, next)
    /\ UNCHANGED <<running, holder, edition, detailVars, videoVars, op>>

\* *AUDIO_THREAD_HANDLE.lock().unwrap() = Some(handle);
\* The join handle that was in the slot is dropped: its thread is detached.
StoreHandle(p) ==
    /\ holder["AUDIO_THREAD_HANDLE"] = None
    /\ SetAudio(ast, aflag, stopFlag, lthr[p], [lthr EXCEPT ![p] = None])
    /\ UNCHANGED <<running, holder, edition, detailVars, videoVars, op>>

\* The slot read without take(): the wrapper stays in CAPTURE_CONTROL.
TakeControl_copy(p, body, after) ==
    /\ holder["CAPTURE_CONTROL"] = None
    /\ IF control = "none"
       THEN /\ IF after = "done" THEN Finish(p, "Ok") ELSE Goto(p, after)
            /\ UNCHANGED <<videoVars, holder>>
       ELSE /\ lctl' = [lctl EXCEPT ![p] = control]
            /\ UNCHANGED <<control, leaked>>
            /\ holder' = [holder EXCEPT !["CAPTURE_CONTROL"] = HeldInBody(p)]
            /\ Goto(p, body)
    /\ UNCHANGED <<running, edition, detailVars, audioVars, op>>

\* if let Some(control) = CAPTURE_CONTROL.lock().unwrap().take() { body }
TakeControl(p, body, after) ==
    /\ holder["CAPTURE_CONTROL"] = None
    /\ IF control = "none"
       THEN /\ IF after = "done" THEN Finish(p, "Ok") ELSE Goto(p, after)
            /\ UNCHANGED <<videoVars, holder>>
       ELSE /\ lctl' = [lctl EXCEPT ![p] = control]
            /\ control' = "none"
            /\ UNCHANGED leaked
            /\ holder' = [holder EXCEPT !["CAPTURE_CONTROL"] = HeldInBody(p)]
            /\ Goto(p, body)
    /\ UNCHANGED <<running, edition, detailVars, audioVars, op>>

\* ControlWrapper::stop_capture on the wrapper just taken: the inner
\* CaptureControl is taken and stopped.  CaptureControl::stop can fail, and
\* when it fails the capture thread may or may not have ended.
StopVideoOutcomes(h) == {<<"Ok", "ended">>, <<"Err", "ended">>, <<"Err", h>>}

\* control.stop_capture()? : the body of the if-let; the wrapper is dropped
\* and the guard released when it ends, also when `?` returns the error.
StopVideo(p, after) ==
    /\ \E o \in StopVideoOutcomes(lctl[p]) :
          /\ leaked' = LeakedAfterDrop(o[2])
          /\ IF o[1] = "Ok"
             THEN IF after = "done" THEN Finish(p, "Ok") ELSE Goto(p, after)
             ELSE Finish(p, "StopFailed")
    /\ lctl' = [lctl EXCEPT ![p] = "none"]
    /\ UNCHANGED control
    /\ holder' = Release(p)
    /\ UNCHANGED <<running, edition, detailVars, audioVars, op>>

\* if let Some(flag) = AUDIO_STOP_FLAG.lock().unwrap().take() {
\*     flag.store(true, Ordering::SeqCst); }
TakeFlag(p, after) ==
    /\ holder["AUDIO_STOP_FLAG"] = None
    /\ IF stopFlag = None
       THEN UNCHANGED audioVars
       ELSE SetAudio(ast, [aflag EXCEPT ![stopFlag] = TRUE], None, threadHandle, lthr)
    /\ Goto(p, after)
    /\ UNCHANGED <<running, holder, edition, detailVars, videoVars, op>>

\* if let Some(handle) = AUDIO_THREAD_HANDLE.lock().unwrap().take() { body }
TakeHandle(p, body, after) ==
    /\ holder["AUDIO_THREAD_HANDLE"] = None
    /\ IF threadHandle = None
       THEN /\ Goto(p, after)
            /\ UNCHANGED <<audioVars, holder>>
       ELSE /\ SetAudio(ast, aflag, stopFlag, None, [lthr EXCEPT ![p] = threadHandle])
            /\ holder' = [holder EXCEPT !["AUDIO_THREAD_HANDLE"] = HeldInBody(p)]
            /\ Goto(p, body)
    /\ UNCHANGED <<running, edition, detailVars, videoVars, op>>

\* let _ = handle.join(); returns once the thread has terminated.
JoinAudio(p, after) ==
    /\ ast[lthr[p]] = "exited"
    /\ SetAudio(ast, aflag, stopFlag, threadHandle, [lthr EXCEPT ![p] = None])
    /\ holder' = Release(p)
    /\ Goto(p, after)
    /\ UNCHANGED <<running, edition, detailVars, videoVars, op>>

\* ---------------------------------------------------------- start_capture
\* start_capture without its check of CAPTURE_RUNNING.
StartRejected_unchecked == FALSE

\* start_capture raising CAPTURE_RUNNING at its check, before the capture
\* is created, and never lowering it on failure.
StartCall_claimsFirst(p) ==
    /\ pc[p] = "idle"
    /\ op' = [op EXCEPT ![p] = "start"]
    /\ IF running
       THEN Finish(p, "AlreadyRunning") /\ UNCHANGED running
       ELSE Goto(p, "start_wgc") /\ running' = TRUE
    /\ UNCHANGED <<holder, edition, detailVars, audioVars, videoVars>>

\* The load of CAPTURE_RUNNING that opens start_capture.
StartRejected == running

StartCall(p) ==
    /\ pc[p] = "idle"
    /\ op' = [op EXCEPT ![p] = "start"]
    /\ IF StartRejected
       THEN Finish(p, "AlreadyRunning")
       ELSE Goto(p, "start_wgc")
    /\ UNCHANGED <<running, holder, edition, detailVars, audioVars, videoVars>>

StartWgc(p, t) ==
    /\ pc[p] = "start_wgc"
    /\ Wgc(p, t, "start_set_running")

StartSetRunning(p) ==
    /\ pc[p] = "start_set_running"
    /\ running' = TRUE
    /\ Goto(p, "start_store_control")
    /\ UNCHANGED <<holder, edition, detailVars, audioVars, videoVars, op>>

\* ... followed by `if capture_audio { .. }`, or by Ok(()).
StartStoreControl(p, a) ==
    /\ pc[p] = "start_store_control"
    /\ StoreControl(p)
    /\ IF a
       THEN AudioRoom /\ Goto(p, "start_store_flag")
       ELSE Finish(p, "Ok")

StartStoreFlag(p) ==
    /\ pc[p] = "start_store_flag"
    /\ StoreNewFlag(p, "start_spawn")

StartSpawn(p) ==
    /\ pc[p] = "start_spawn"
    /\ SpawnAudio(p, "start_store_handle")

StartStoreHandle(p) ==
    /\ pc[p] = "start_store_handle"
    /\ StoreHandle(p)
    /\ Finish(p, "Ok")

\* -------------------------------------------------- switch_capture_target
\* switch_capture_target without its check of CAPTURE_RUNNING.
SwitchRejected_unchecked == FALSE

\* The load of CAPTURE_RUNNING that opens switch_capture_target.
SwitchRejected == ~running

SwitchCall(p) ==
    /\ pc[p] = "idle"
    /\ op' = [op EXCEPT ![p] = "switch"]
    /\ IF SwitchRejected
       THEN Finish(p, "NotRunning")
       ELSE AudioRoom /\ Goto(p, "sw_take_control")
    /\ UNCHANGED <<running, holder, edition, detailVars, audioVars, videoVars>>

SwTakeControl(p) ==
    /\ pc[p] = "sw_take_control"
    /\ TakeControl(p, "sw_stop_video", "sw_take_flag")

SwStopVideo(p) ==
    /\ pc[p] = "sw_stop_video"
    /\ StopVideo(p, "sw_take_flag")

SwTakeFlag(p) ==
    /\ pc[p] = "sw_take_flag"
    /\ TakeFlag(p, "sw_take_handle")

SwTakeHandle(p) ==
    /\ pc[p] = "sw_take_handle"
    /\ TakeHandle(p, "sw_join", "sw_store_flag")

SwJoin(p) ==
    /\ pc[p] = "sw_join"
    /\ JoinAudio(p, "sw_store_flag")

SwStoreFlag(p) ==
    /\ pc[p] = "sw_store_flag"
    /\ StoreNewFlag(p, "sw_spawn")

SwSpawn(p) ==
    /\ pc[p] = "sw_spawn"
    /\ SpawnAudio(p, "sw_store_handle")

SwStoreHandle(p) ==
    /\ pc[p] = "sw_store_handle"
    /\ StoreHandle(p)
    /\ Goto(p, "sw_wgc")

SwWgc(p, t) ==
    /\ pc[p] = "sw_wgc"
    /\ Wgc(p, t, "sw_store_control")

SwStoreControl(p) ==
    /\ pc[p] = "sw_store_control"
    /\ StoreControl(p)
    /\ Finish(p, "Ok")

\* ------------------------------------------------------------ stop_capture
\* CAPTURE_RUNNING.store(false, Ordering::SeqCst) opens stop_capture.
StopCall(p) ==
    /\ pc[p] = "idle"
    /\ op' = [op EXCEPT ![p] = "stop"]
    /\ running' = FALSE
    /\ Goto(p, "st_take_flag")
    /\ UNCHANGED <<holder, edition, detailVars, audioVars, videoVars>>

StTakeFlag(p) ==
    /\ pc[p] = "st_take_flag"
    /\ TakeFlag(p, "st_take_handle")

\* stop_capture going on to the video handle without handle.join().
StTakeHandle_noJoin(p) ==
    /\ pc[p] = "st_take_handle"
    /\ TakeHandle(p, "st_take_control", "st_take_control")

StTakeHandle(p) ==
    /\ pc[p] = "st_take_handle"
    /\ TakeHandle(p, "st_join", "st_take_control")

StJoin(p) ==
    /\ pc[p] = "st_join"
    /\ JoinAudio(p, "st_take_control")

StTakeControl(p) ==
    /\ pc[p] = "st_take_control"
    /\ TakeControl(p, "st_stop_video", "done")

StStopVideo(p) ==
    /\ pc[p] = "st_stop_video"
    /\ StopVideo(p, "done")

\* The command's result has been delivered to the caller.
Return(p) ==
    /\ pc[p] = "done"
    /\ pc' = [pc EXCEPT ![p] = "idle"]
    /\ op' = [op EXCEPT ![p] = "none"]
    /\ result' = [result EXCEPT ![p] = "none"]
    /\ UNCHANGED <<running, holder, edition, detailVars, audioVars, videoVars>>

\* ------------------------------------------------------- the audio thread
\* run_wasapi_loopback reached a capture loop (process loopback, or the
\* regular loopback it falls back to).
AudioAcquired(a) ==
    /\ ast[a] = "init"
    /\ SetAudio([ast EXCEPT ![a] = "loop"], aflag, stopFlag, threadHandle, lthr)
    /\ UNCHANGED <<running, holder, edition, detailVars, videoVars, callVars>>

\* Both tiers returned an error: the thread prints it and ends.
AudioAcquireFailed(a) ==
    /\ ast[a] = "init"
    /\ SetAudio([ast EXCEPT ![a] = "exited"], aflag, stopFlag, threadHandle, lthr)
    /\ UNCHANGED <<running, holder, edition, detailVars, videoVars, callVars>>

\* while !stop_flag.load(..) { .. } ends, the stream is torn down and the
\* thread terminates.
AudioStopObserved(a) ==
    /\ ast[a] = "loop"
    /\ aflag[a]
    /\ SetAudio([ast EXCEPT ![a] = "exited"], aflag, stopFlag, threadHandle, lthr)
    /\ UNCHANGED <<running, holder, edition, detailVars, videoVars, callVars>>

\* ------------------------------------------------------ the video session
\* CaptureHandler::on_closed: the OS invalidated the capture item of a live
\* session, whose handle is in CAPTURE_CONTROL, ...
OnClosedStored ==
    /\ control = "live"
    /\ control' = "ended"
    /\ running' = FALSE
    /\ UNCHANGED <<leaked, lctl, holder, edition, detailVars, audioVars, callVars>>

\* ... or in the local of a command, ...
OnClosedLocal(p) ==
    /\ lctl[p] = "live"
    /\ lctl' = [lctl EXCEPT ![p] = "ended"]
    /\ running' = FALSE
    /\ UNCHANGED <<control, leaked, holder, edition, detailVars, audioVars, callVars>>

\* ... or no longer exists.
OnClosedLeaked ==
    /\ leaked > 0
    /\ leaked' = leaked - 1
    /\ running' = FALSE
    /\ UNCHANGED <<control, lctl, holder, edition, detailVars, audioVars, callVars>>

\* ------------------------------------------------------------------- Next
Next ==
    \/ \E p \in Callers : StartCall(p)
    \/ \E p \in Callers, t \in TargetIds : StartWgc(p, t)
    \/ \E p \in Callers : StartSetRunning(p)
    \/ \E p \in Callers, a \in BOOLEAN : StartStoreControl(p, a)
    \/ \E p \in Callers : StartStoreFlag(p)
    \/ \E p \in Callers : StartSpawn(p)
    \/ \E p \in Callers : StartStoreHandle(p)
    \/ \E p \in Callers : SwitchCall(p)
    \/ \E p \in Callers : SwTakeControl(p)
    \/ \E p \in Callers : SwStopVideo(p)
    \/ \E p \in Callers : SwTakeFlag(p)
    \/ \E p \in Callers : SwTakeHandle(p)
    \/ \E p \in Callers : SwJoin(p)
    \/ \E p \in Callers : SwStoreFlag(p)
    \/ \E p \in Callers : SwSpawn(p)
    \/ \E p \in Callers : SwStoreHandle(p)
    \/ \E p \in Callers, t \in TargetIds : SwWgc(p, t)
    \/ \E p \in Callers : SwStoreControl(p)
    \/ \E p \in Callers : StopCall(p)
    \/ \E p \in Callers : StTakeFlag(p)
    \/ \E p \in Callers : StTakeHandle(p)
    \/ \E p \in Callers : StJoin(p)
    \/ \E p \in Callers : StTakeControl(p)
    \/ \E p \in Callers : StStopVideo(p)
    \/ \E p \in Callers : Return(p)
    \/ \E a \in AudioIds : AudioAcquired(a)
    \/ \E a \in AudioIds : AudioAcquireFailed(a)
    \/ \E a \in AudioIds : AudioStopObserved(a)
    \/ OnClosedStored
    \/ \E p \in Callers : OnClosedLocal(p)
    \/ OnClosedLeaked

\* Commands never overlap: only the first caller issues commands.
NextSeq == Next /\ \A p \in Callers \ {1} : pc'[p] = "idle"

\* Every scope the guard of an if-let scrutinee can have.
Spec == Init /\ [][Next]_vars

\* The guard is held to the end of the if-let (editions up to 2021).  Every
\* behaviour of SpecE2021 is, the mutex holders apart, one of SpecE2024.
InitE2021 == Init /\ edition = "e2021"
SpecE2021 == InitE2021 /\ [][Next]_vars

\* The guard is dropped before the body (edition 2024).
InitE2024 == Init /\ edition = "e2024"
SpecE2024 == InitE2024 /\ [][Next]_vars

\* One command at a time.
SpecSeq == InitE2021 /\ [][NextSeq]_vars

TypeOK ==
    /\ running \in BOOLEAN
    /\ control \in {"none", "live", "ended"}
    /\ leaked \in 0..MaxVideo
    /\ stopFlag \in AudioIds \cup {None}
    /\ threadHandle \in AudioIds \cup {None}
    /\ holder \in [Mutexes -> Callers \cup {None}]
    /\ ast \in [AudioIds -> {"free", "unspawned", "init", "loop", "exited"}]
    /\ aflag \in [AudioIds -> BOOLEAN]
    /\ op \in [Callers -> {"none", "start", "switch", "stop"}]
    /\ result \in [Callers -> Results]
    /\ lctl \in [Callers -> {"none", "live", "ended"}]
    /\ lthr \in [Callers -> AudioIds \cup {None}]

\* ==================================================== one audio thread
\* Packets the OS delivers to the endpoint buffer over the life of a thread.
MaxPackets == 2
\* std::process::id() of the application.
SelfPid == 4
\* Values of target_process_id (u32).
Pids == {0, 1, SelfPid, 2147483647}

Ev(k, a) == [ev |-> k, arg |-> a]

\* The thread makes the calls and emits the events es, in that order, and
\* goes on at l.
ThreadDoes(es, l) ==
    /\ thread' = [thread EXCEPT !.log = @ \o es, !.tpc = l]
    /\ UNCHANGED nonThreadVars

\* The same, the thread returning r from run_wasapi_loopback.
ThreadReturns(es, r) ==
    /\ thread' = [thread EXCEPT !.log = @ \o es, !.tpc = "returned", !.tret = r]
    /\ UNCHANGED nonThreadVars

\* std::thread::spawn(move || run_wasapi_loopback(audio_app, stop_flag,
\* target_pid)) with target_pid = target_process_id and a fresh stop flag:
\* in start_capture inside `if capture_audio { .. }`, in
\* switch_capture_target always, whatever capture_audio the session was
\* started with.
ThreadSpawn(c, pid, capture_audio) ==
    /\ thread.tpc = "unspawned"
    /\ c = "start" => capture_audio
    /\ thread' = [thread EXCEPT !.spawnedBy = c, !.capture_audio = capture_audio,
                                !.cmdPid = pid, !.targetPid = pid, !.tpc = "t1_mode"]
    /\ UNCHANGED nonThreadVars

\* The two modes the wrong way round.
ProcessLoopbackMode_swapped(pid) ==
    IF pid > 0 THEN <<"EXCLUDE", SelfPid>> ELSE <<"INCLUDE", pid>>

\* let (pid, mode, mode_name) = if target_pid > 0 { .. } else { .. };
ProcessLoopbackMode(pid) ==
    IF pid > 0 THEN <<"INCLUDE", pid>> ELSE <<"EXCLUDE", SelfPid>>

T1Mode ==
    /\ thread.tpc = "t1_mode"
    /\ thread' = [thread EXCEPT !.plMode = ProcessLoopbackMode(thread.targetPid),
                                !.tpc = "t1_format"]
    /\ UNCHANGED nonThreadVars

\* Step 1 of run_process_loopback: initialize_mta() and the mix format of the
\* default render device; any of its four calls may fail.
T1Format(ok) ==
    /\ thread.tpc = "t1_format"
    /\ ThreadDoes(<<Ev("com", "initialize_mta")>>,
                  IF ok THEN "t1_activate" ELSE "fallback")

\* Step 2: CoInitializeEx, the activation event, ActivateAudioInterfaceAsync,
\* the bounded wait, CloseHandle(event) and the activation result.
T1ActivateFailures ==
    {"none", "CreateEventW", "ActivateAudioInterfaceAsync", "GetActivateResult"}

\* The calls of step 2 when f fails; completed: ActivateCompleted ran, and
\* signalled the event, before WaitForSingleObject(event, 5000) returned.
T1ActivateCalls(f, completed) ==
    <<Ev("com", "CoInitializeEx")>>
    \o (IF f = "CreateEventW" THEN <<>> ELSE <<Ev("handle", "CreateEventW")>>)
    \o (IF completed THEN <<Ev("SetEvent", "open")>> ELSE <<>>)
    \o (IF f \in {"CreateEventW", "ActivateAudioInterfaceAsync"}
        THEN <<>> ELSE <<Ev("handle", "CloseHandle")>>)

\* The handler is registered once ActivateAudioInterfaceAsync has returned
\* Ok; the wait then ends with the event signalled by the handler, or
\* after 5000 ms with the handler still to be called. Its result is
\* discarded and CloseHandle(event) follows either way.
T1Activate(f) ==
    /\ thread.tpc = "t1_activate"
    /\ \E completed \in BOOLEAN :
          /\ f \in {"CreateEventW", "ActivateAudioInterfaceAsync"} => ~completed
          /\ thread' = [thread EXCEPT
                !.log = @ \o T1ActivateCalls(f, completed),
                !.tpc = IF f = "none" THEN "t1_info" ELSE "fallback",
                !.completion =
                    IF f \in {"CreateEventW", "ActivateAudioInterfaceAsync"}
                    THEN "none"
                    ELSE IF completed THEN "fired" ELSE "pending"]
    /\ UNCHANGED nonThreadVars

\* CloseHandle(event) of step 2 has been called: it is the first
\* CloseHandle of the thread.
ActivationEventClosed ==
    \E i \in 1..Len(thread.log) : thread.log[i] = Ev("handle", "CloseHandle")

\* ActivateCompletionHandler::ActivateCompleted, called by the OS on a
\* thread of its own when the activation completes:
\* SetEvent(HANDLE(self.event)), on the handle value the handler was built
\* with, whatever has become of the handle.
ActivateCompleted ==
    /\ thread.completion = "pending"
    /\ thread' = [thread EXCEPT
          !.log = Append(@, Ev("SetEvent",
                               IF ActivationEventClosed THEN "closed" ELSE "open")),
          !.completion = "fired"]
    /\ UNCHANGED nonThreadVars

\* app.emit("wasapi-info", "WASAPI (process-.., PID=..): ..")
T1Info ==
    /\ thread.tpc = "t1_info"
    /\ ThreadDoes(<<Ev("wasapi-info", "process")>>, "t1_init")

\* Step 3: Initialize, GetService, the capture event, SetEventHandle, Start.
T1InitFailures ==
    {"none", "Initialize", "GetService", "CreateEventW", "SetEventHandle", "Start"}

T1InitCalls(f) ==
    (IF f \in {"Initialize", "GetService", "CreateEventW"}
     THEN <<>> ELSE <<Ev("handle", "CreateEventW")>>)
    \o (IF f = "none" THEN <<Ev("stream", "start")>> ELSE <<>>)

\* A failure of step 3 returned from the thread instead of falling back.
T1Init_noFallback(f) ==
    /\ thread.tpc = "t1_init"
    /\ IF f = "none"
       THEN ThreadDoes(T1InitCalls(f), "t1_loop")
       ELSE ThreadReturns(T1InitCalls(f), "Err")

T1Init(f) ==
    /\ thread.tpc = "t1_init"
    /\ ThreadDoes(T1InitCalls(f), IF f = "none" THEN "t1_loop" ELSE "fallback")

\* while !stop_flag.load(Ordering::SeqCst)
T1LoopCheck ==
    /\ thread.tpc = "t1_loop"
    /\ ThreadDoes(<<>>, IF thread.stopReq THEN "t1_teardown" ELSE "t1_wait")

\* The wait without its 100 ms bound: it returns only for a packet.
T1Wait_unbounded(timeout) ==
    /\ thread.tpc = "t1_wait"
    /\ thread.avail # <<>>
    /\ ThreadDoes(<<>>, "t1_read")

\* WaitForSingleObject(event_handle, 100): WAIT_TIMEOUT after 100 ms, or
\* any other result, after which the packets are read.
T1Wait(timeout) ==
    /\ thread.tpc = "t1_wait"
    /\ ThreadDoes(<<>>, IF timeout THEN "t1_loop" ELSE "t1_read")

\* One round of the inner loop: GetBuffer; break on an error or on no
\* frames, else emit capture-audio for the packet and release it.
T1Read(ok) ==
    /\ thread.tpc = "t1_read"
    /\ IF ok /\ thread.avail # <<>>
       THEN thread' = [thread EXCEPT
                          !.log = Append(@, Ev("capture-audio", <<Head(thread.avail)>>)),
                          !.avail = Tail(@)]
       ELSE thread' = [thread EXCEPT !.tpc = "t1_loop"]
    /\ UNCHANGED nonThreadVars

\* Reset, Stop, CloseHandle(event_handle), drop of capture_client, client
\* and operation, CoUninitialize, Ok(()).
T1Teardown ==
    /\ thread.tpc = "t1_teardown"
    /\ ThreadReturns(<<Ev("stream", "reset"), Ev("stream", "stop"),
                       Ev("handle", "CloseHandle"), Ev("release", "capture_client"),
                       Ev("release", "client"), Ev("release", "operation"),
                       Ev("com", "CoUninitialize")>>, "Ok")

\* Err(e) of run_process_loopback in run_wasapi_loopback: the fallback
\* message is emitted and run_regular_loopback is called.
Fallback ==
    /\ thread.tpc = "fallback"
    /\ ThreadDoes(<<Ev("wasapi-info", "fallback")>>, "t2_format")

\* run_regular_loopback up to its wasapi-info event: initialize_mta(), the
\* default render device, its client and its mix format.
T2Format(ok) ==
    /\ thread.tpc = "t2_format"
    /\ IF ok
       THEN ThreadDoes(<<Ev("com", "initialize_mta"), Ev("wasapi-info", "regular")>>,
                       "t2_init")
       ELSE ThreadReturns(<<Ev("com", "initialize_mta")>>, "Err")

\* initialize_client, get_audiocaptureclient, set_get_eventhandle,
\* start_stream.
T2InitFailures ==
    {"none", "initialize_client", "get_audiocaptureclient", "set_get_eventhandle",
     "start_stream"}

T2Init(f) ==
    /\ thread.tpc = "t2_init"
    /\ IF f = "none"
       THEN ThreadDoes(<<Ev("stream", "start")>>, "t2_loop")
       ELSE ThreadReturns(<<>>, "Err")

T2LoopCheck ==
    /\ thread.tpc = "t2_loop"
    /\ ThreadDoes(<<>>, IF thread.stopReq THEN "t2_teardown" ELSE "t2_wait")

\* event.wait_for_event(100): an error (the timeout) continues the loop.
T2Wait(timeout) ==
    /\ thread.tpc = "t2_wait"
    /\ ThreadDoes(<<>>, IF timeout THEN "t2_loop" ELSE "t2_read")

\* The read that takes every waiting packet into the deque before the one
\* event is emitted.
T2Read_allPackets(ok) ==
    /\ thread.tpc = "t2_read"
    /\ IF ok /\ thread.avail # <<>>
       THEN thread' = [thread EXCEPT
                          !.log = Append(@, Ev("capture-audio", thread.avail)),
                          !.avail = <<>>,
                          !.tpc = "t2_loop"]
       ELSE thread' = [thread EXCEPT !.tpc = "t2_loop"]
    /\ UNCHANGED nonThreadVars

\* read_from_device_to_deque once, then one capture-audio event for what
\* the deque holds; an error or an empty deque continues the loop.
T2Read(ok) ==
    /\ thread.tpc = "t2_read"
    /\ IF ok /\ thread.avail # <<>>
       THEN thread' = [thread EXCEPT
                          !.log = Append(@, Ev("capture-audio", <<Head(thread.avail)>>)),
                          !.avail = Tail(@),
                          !.tpc = "t2_loop"]
       ELSE thread' = [thread EXCEPT !.tpc = "t2_loop"]
    /\ UNCHANGED nonThreadVars

\* audio_client.stop_stream()?, then the locals go out of scope.
T2Teardown(ok) ==
    /\ thread.tpc = "t2_teardown"
    /\ ThreadReturns(<<Ev("stream", "stop"), Ev("release", "event"),
                       Ev("release", "capture_client"), Ev("release", "audio_client")>>,
                     IF ok THEN "Ok" ELSE "Err")

\* flag.store(true, Ordering::SeqCst) by stop_capture or
\* switch_capture_target.
SetStopFlag ==
    /\ thread.tpc # "unspawned"
    /\ ~thread.stopReq
    /\ thread' = [thread EXCEPT !.stopReq = TRUE]
    /\ UNCHANGED nonThreadVars

\* handle.join() by the command that set the flag.
JoinThread ==
    /\ thread.stopReq
    /\ thread.tpc = "returned"
    /\ ~thread.joined
    /\ thread' = [thread EXCEPT !.joined = TRUE]
    /\ UNCHANGED nonThreadVars

\* The audio engine delivers a packet to the started stream.
PacketArrives ==
    /\ thread.tpc \in {"t1_loop", "t1_wait", "t1_read", "t2_loop", "t2_wait", "t2_read"}
    /\ thread.arrived < MaxPackets
    /\ thread' = [thread EXCEPT !.arrived = @ + 1,
                                !.avail = Append(@, thread.arrived + 1)]
    /\ UNCHANGED nonThreadVars

\* The steps the thread itself takes.
ThreadStep ==
    \/ T1Mode
    \/ \E ok \in BOOLEAN : T1Format(ok)
    \/ \E f \in T1ActivateFailures : T1Activate(f)
    \/ T1Info
    \/ \E f \in T1InitFailures : T1Init(f)
    \/ T1LoopCheck
    \/ \E timeout \in BOOLEAN : T1Wait(timeout)
    \/ \E ok \in BOOLEAN : T1Read(ok)
    \/ T1Teardown
    \/ Fallback
    \/ \E ok \in BOOLEAN : T2Format(ok)
    \/ \E f \in T2InitFailures : T2Init(f)
    \/ T2LoopCheck
    \/ \E timeout \in BOOLEAN : T2Wait(timeout)
    \/ \E ok \in BOOLEAN : T2Read(ok)
    \/ \E ok \in BOOLEAN : T2Teardown(ok)

NextThread ==
    \/ \E c \in {"start", "switch"}, pid \in Pids, capture_audio \in BOOLEAN :
          ThreadSpawn(c, pid, capture_audio)
    \/ T1Mode
    \/ \E ok \in BOOLEAN : T1Format(ok)
    \/ \E f \in T1ActivateFailures : T1Activate(f)
    \/ T1Info
    \/ \E f \in T1InitFailures : T1Init(f)
    \/ T1LoopCheck
    \/ \E timeout \in BOOLEAN : T1Wait(timeout)
    \/ \E ok \in BOOLEAN : T1Read(ok)
    \/ T1Teardown
    \/ Fallback
    \/ \E ok \in BOOLEAN : T2Format(ok)
    \/ \E f \in T2InitFailures : T2Init(f)
    \/ T2LoopCheck
    \/ \E timeout \in BOOLEAN : T2Wait(timeout)
    \/ \E ok \in BOOLEAN : T2Read(ok)
    \/ \E ok \in BOOLEAN : T2Teardown(ok)
    \/ SetStopFlag
    \/ JoinThread
    \/ PacketArrives
    \/ ActivateCompleted

SpecThread == InitE2021 /\ [][NextThread]_vars

\* The OS schedules the thread and the joining command.
SpecThreadFair ==
    InitE2021 /\ [][NextThread]_vars /\ WF_vars(ThreadStep) /\ WF_vars(JoinThread)

ThreadTypeOK ==
    /\ thread.tpc \in
          {"unspawned", "t1_mode", "t1_format", "t1_activate", "t1_info", "t1_init",
           "t1_loop", "t1_wait", "t1_read", "t1_teardown", "fallback",
           "t2_format", "t2_init", "t2_loop", "t2_wait", "t2_read", "t2_teardown",
           "returned"}
    /\ thread.spawnedBy \in {"none", "start", "switch"}
    /\ thread.capture_audio \in BOOLEAN
    /\ thread.cmdPid \in Pids /\ thread.targetPid \in Pids
    /\ thread.stopReq \in BOOLEAN /\ thread.joined \in BOOLEAN
    /\ thread.arrived \in 0..MaxPackets
    /\ Len(thread.avail) <= MaxPackets
    /\ thread.tret \in {"none", "Ok", "Err"}
    /\ thread.completion \in {"none", "pending", "fired"}

\* ================================================== the frame callback
\* Time, in ms, over which a session is followed.
MaxClock == 70
\* Values of the fps argument.
FpsValues == {0, 30, 60, 61}
\* Time that passes between two callbacks.
Delays == {1, 16, 33}

\* ctx.flags.fps.max(1).min(60)
ClampFps(fps) == IF fps < 1 THEN 1 ELSE IF fps > 60 THEN 60 ELSE fps

\* CaptureHandler::new
HandlerNew(fps) ==
    /\ frame.fps = 0
    /\ frame' = [frame EXCEPT !.fps = ClampFps(fps),
                              !.fps_interval_ms = 1000 \div ClampFps(fps),
                              !.last_frame_time = frame.clock]
    /\ UNCHANGED nonFrameVars

Tick(d) ==
    /\ frame.clock + d <= MaxClock
    /\ frame' = [frame EXCEPT !.clock = @ + d]
    /\ UNCHANGED nonFrameVars

\* What can happen to a frame that is not throttled: all goes well, or
\* frame.buffer() fails, or turbojpeg::compress fails, or emit fails.
FrameOutcomes == {"emitted", "buffer failed", "compress failed", "emit failed"}

\* The value on_frame_arrived returns: `?` passes the error of
\* frame.buffer() and of turbojpeg::compress on, `let _ =` drops the one of
\* emit.
FrameReturn(o) ==
    IF o \in {"buffer failed", "compress failed"} THEN "Err" ELSE "Ok"

\* CaptureHandler::on_frame_arrived
OnFrameArrived(o) ==
    /\ frame.fps # 0
    /\ IF frame.clock - frame.last_frame_time < frame.fps_interval_ms
       THEN frame' = [frame EXCEPT !.outcome = "throttled", !.ret = "Ok"]
       ELSE frame' = [frame EXCEPT
                         !.last_frame_time = frame.clock,
                         !.outcome = o,
                         !.ret = FrameReturn(o),
                         !.last_emit = IF o = "emitted" THEN frame.clock ELSE @,
                         !.emit_gap = IF o = "emitted" /\ frame.last_emit # -1
                                      THEN frame.clock - frame.last_emit ELSE @]
    /\ UNCHANGED nonFrameVars

NextFrame ==
    \/ \E fps \in FpsValues : HandlerNew(fps)
    \/ \E d \in Delays : Tick(d)
    \/ \E o \in FrameOutcomes : OnFrameArrived(o)

SpecFrame == InitE2021 /\ [][NextFrame]_vars

\* ================================================= functions without state
\* Frames of one packet.
MaxFrames == 2
\* Channel counts of the capture format: mono, stereo, 2.1, quadraphonic.
ChannelCounts == {1, 2, 3, 4}
\* Values of a sample; 0 is the 0.0 that unwrap_or supplies.
SampleValues == {1, 2}

\* all_samples.get(i).copied().unwrap_or(0.0), i counted from 0.
GetOr0(all_samples, i) == IF i < Len(all_samples) THEN all_samples[i + 1] ELSE 0

\* The multi-channel arm taking the first and the third channel.
downmix_to_stereo_ch02(all_samples, channels, frame_count) ==
    IF channels = 2 THEN all_samples
    ELSE IF channels = 1
    THEN [k \in 1..(2 * frame_count) |-> GetOr0(all_samples, (k - 1) \div 2)]
    ELSE [k \in 1..(2 * frame_count) |->
             GetOr0(all_samples, ((k - 1) \div 2) * channels + 2 * ((k - 1) % 2))]

\* fn downmix_to_stereo(all_samples: &[f32], channels: usize, frame_count: usize)
downmix_to_stereo(all_samples, channels, frame_count) ==
    IF channels = 2 THEN all_samples
    ELSE IF channels = 1
    THEN [k \in 1..(2 * frame_count) |-> GetOr0(all_samples, (k - 1) \div 2)]
    ELSE [k \in 1..(2 * frame_count) |->
             GetOr0(all_samples, ((k - 1) \div 2) * channels + ((k - 1) % 2))]

\* The call of downmix_to_stereo in the capture loops: all_samples holds the
\* frame_count frames of the packet, channels samples each.  A behaviour
\* follows one call.
DownmixCall ==
    /\ call.fn = "none"
    /\ \E channels \in ChannelCounts, frame_count \in 0..MaxFrames :
          \E all_samples \in [1..(channels * frame_count) -> SampleValues] :
              call' = [fn |-> "downmix_to_stereo", all_samples |-> all_samples,
                       channels |-> channels, frame_count |-> frame_count,
                       ret |-> downmix_to_stereo(all_samples, channels, frame_count)]
    /\ UNCHANGED nonCallVars

\* ------------------------------------------- enumerate_capture_targets
\* Windows that Window::enumerate may report in one call.
MaxWindows == 2

\* A process name or any other string the code looks into is the sequence of
\* its characters.
\* const BACKGROUND_PROCESSES
BACKGROUND_PROCESSES ==
    { <<"t", "e", "x", "t", "i", "n", "p", "u", "t", "h", "o", "s", "t", ".", "e", "x", "e">>,
      <<"s", "e", "a", "r", "c", "h", "h", "o", "s", "t", ".", "e", "x", "e">>,
      <<"s", "h", "e", "l", "l", "e", "x", "p", "e", "r", "i", "e", "n", "c", "e", "h", "o", "s", "t", ".", "e", "x", "e">>,
      <<"s", "t", "a", "r", "t", "m", "e", "n", "u", "e", "x", "p", "e", "r", "i", "e", "n", "c", "e", "h", "o", "s", "t", ".", "e", "x", "e">>,
      <<"l", "o", "c", "k", "a", "p", "p", ".", "e", "x", "e">>,
      <<"w", "i", "d", "g", "e", "t", "s", ".", "e", "x", "e">>,
      <<"g", "a", "m", "e", "b", "a", "r", ".", "e", "x", "e">>,
      <<"g", "a", "m", "e", "b", "a", "r", "f", "t", "s", "e", "r", "v", "e", "r", ".", "e", "x", "e">>,
      <<"m", "s", "t", "e", "a", "m", "s", ".", "e", "x", "e">> }

\* The literal of the test that skips the application's own windows.
OwnNameLiteral == <<"n", "e", "x", "u", "s">>

\* The name of the application's executable.
HostName == <<"n", "e", "x", "u", "s", ".", "e", "x", "e">>

\* Names win.process_name() may give: the application itself in two
\* spellings, two other applications, a background process in two
\* spellings, and the empty default of a failed query.
ProcessNames ==
    { <<"n", "e", "x", "u", "s", ".", "e", "x", "e">>,
      <<"N", "e", "x", "u", "s", ".", "e", "x", "e">>,
      <<"n", "e", "x", "u", "s", "m", "o", "d", "s", ".", "e", "x", "e">>,
      <<"c", "a", "l", "c", ".", "e", "x", "e">>,
      <<"m", "s", "t", "e", "a", "m", "s", ".", "e", "x", "e">>,
      <<"M", "S", "T", "e", "a", "m", "s", ".", "e", "x", "e">>,
      <<>> }

\* char::to_lowercase on the letters that occur.
LowerChar(c) ==
    CASE c = "N" -> "n" [] c = "M" -> "m" [] c = "S" -> "s" [] c = "T" -> "t"
      [] OTHER -> c

\* str::to_lowercase
ToLowercase(str) == [i \in 1..Len(str) |-> LowerChar(str[i])]

\* str::contains
Contains(str, pat) ==
    \E i \in 0..(Len(str) - Len(pat)) : SubSeq(str, i + 1, i + Len(pat)) = pat

\* What the OS reports of a window: its title, the name of its process, the
\* answer of IsWindowVisible, the answer of DwmGetWindowAttribute(DWMWA_CLOAKED)
\* ("error" when the call fails), and the bits WS_EX_TOOLWINDOW and
\* WS_EX_APPWINDOW of its extended style.  Every title and process name on an
\* ordinary window, and every combination of the other answers on a window
\* of another application.
OsWindows ==
    { [title |-> t, process_name |-> n, visible |-> TRUE, cloaked |-> "no",
       tool |-> FALSE, app |-> FALSE] :
         t \in {"", "Program Manager", "Calculator"}, n \in ProcessNames }
    \cup
    { [title |-> "Calculator", process_name |-> <<"c", "a", "l", "c", ".", "e", "x", "e">>,
       visible |-> v, cloaked |-> c, tool |-> tw, app |-> aw] :
         v \in BOOLEAN, c \in {"no", "yes", "error"}, tw \in BOOLEAN, aw \in BOOLEAN }

\* The filter without its test of the tool-window style.
is_capturable_window_anyStyle(w) ==
    /\ ToLowercase(w.process_name) \notin BACKGROUND_PROCESSES
    /\ w.visible
    /\ w.cloaked # "yes"

\* fn is_capturable_window(hwnd_val: isize, process_name: &str) -> bool
is_capturable_window(w) ==
    /\ ToLowercase(w.process_name) \notin BACKGROUND_PROCESSES
    /\ w.visible
    /\ w.cloaked # "yes"
    /\ ~(w.tool /\ ~w.app)

\* The tests of the loop over the windows that end in `continue`.
WindowListed(w) ==
    /\ ~(w.title = "" \/ w.title = "Program Manager")
    /\ ~Contains(ToLowercase(w.process_name), OwnNameLiteral)
    /\ is_capturable_window(w)

\* format!("{}", n) of a small number.
FormatNat(n) == <<"0", "1", "2", "3", "4", "5", "6", "7", "8", "9">>[n + 1]

\* The targets pushed for the windows from the i-th on; the i-th window the
\* OS reports has the handle i.
RECURSIVE WindowTargets(_, _)
WindowTargets(windows, i) ==
    IF i > Len(windows) THEN <<>>
    ELSE (IF WindowListed(windows[i])
          THEN <<[id |-> <<"window", ":", FormatNat(i)>>,
                  target_type |-> "window",
                  title |-> windows[i].title,
                  process_name |-> windows[i].process_name,
                  hwnd |-> i]>>
          ELSE <<>>)
         \o WindowTargets(windows, i + 1)

\* The targets pushed for the monitors.
MonitorTargets ==
    [k \in 1..MonitorCount |->
        [id |-> <<"monitor", ":", FormatNat(k - 1)>>,
         target_type |-> "monitor",
         title |-> "monitor",
         process_name |-> <<>>,
         hwnd |-> 0]]

\* The sequences of at most n windows.
RECURSIVE WindowLists(_)
WindowLists(n) ==
    IF n = 0 THEN {<<>>}
    ELSE LET shorter == WindowLists(n - 1)
         IN  shorter \cup {Append(l, w) : l \in {s \in shorter : Len(s) = n - 1},
                                           w \in OsWindows}

\* pub async fn enumerate_capture_targets: the windows and the monitors, each
\* left out when its enumeration fails.
EnumerateCall ==
    /\ call.fn = "none"
    /\ \E windows \in WindowLists(MaxWindows), windowsOk \in BOOLEAN,
          monitorsOk \in BOOLEAN :
          call' = [fn |-> "enumerate_capture_targets",
                   windows |-> IF windowsOk THEN windows ELSE <<>>,
                   ret |-> (IF windowsOk THEN WindowTargets(windows, 1) ELSE <<>>)
                           \o (IF monitorsOk THEN MonitorTargets ELSE <<>>)]
    /\ UNCHANGED nonCallVars

\* ------------------------------------------------------------ mod stub
\* The commands of the build for a target_os other than windows.
StubCommands ==
    {"stub::enumerate_capture_targets", "stub::start_capture",
     "stub::switch_capture_target", "stub::stop_capture"}

\* The arguments of each command.
StubArgs(cmd) ==
    IF cmd = "stub::start_capture"
    THEN [target_id : TargetIds, fps : FpsValues, capture_audio : BOOLEAN,
          target_process_id : Pids]
    ELSE IF cmd = "stub::switch_capture_target"
    THEN [target_id : TargetIds, fps : FpsValues, target_process_id : Pids]
    ELSE {<<>>}

\* A stub of stop_capture that succeeds, there being nothing to stop.
StubReturn_stopOk(cmd, args) ==
    IF cmd = "stub::stop_capture" THEN "Ok" ELSE "NotSupported"

\* Err("Native capture is only supported on Windows".into())
StubReturn(cmd, args) == "NotSupported"

\* A command of mod stub is called, as the first call or after another
\* command of mod stub.
StubCall ==
    /\ call.fn \in {"none"} \cup StubCommands
    /\ \E cmd \in StubCommands :
          \E args \in StubArgs(cmd) :
              call' = [fn |-> cmd, args |-> args, ret |-> StubReturn(cmd, args),
                       before |-> call.fn]
    /\ UNCHANGED nonCallVars

NextCall ==
    \/ DownmixCall
    \/ EnumerateCall
    \/ StubCall

SpecCall == InitE2021 /\ [][NextCall]_vars

\* ----------------------------------------------------------------- properties
\* The step in which command p returns.
Finishing(p) == pc[p] # "done" /\ pc'[p] = "done"

\* C1: start_capture invoked while CAPTURE_RUNNING is true returns the
\* AlreadyRunning error in that very step, and the step changes neither the
\* running flag, nor the three slots, nor any video session or audio thread.
C1_StartWhileRunningRejected ==
    [][\A p \in Callers :
          (pc[p] = "idle" /\ op'[p] = "start" /\ running)
          => (pc'[p] = "done" /\ result'[p] = "AlreadyRunning" /\ UNCHANGED shared)]_vars

\* A start was rejected while a session with video and audio was active.
C1_Witness ==
    \E p \in Callers :
        /\ op[p] = "start" /\ pc[p] = "done" /\ result[p] = "AlreadyRunning"
        /\ running /\ control = "live"
        /\ threadHandle # None /\ threadHandle \in RunningAudio

\* C2: at most one video capture session is live and at most one audio
\* thread is running, in every reachable state.
C2_AtMostOneSession ==
    LiveVideo <= 1 /\ Cardinality(RunningAudio) <= 1

\* C3: two overlapping switch_capture_target calls never both hold an audio
\* thread they have just spawned while both threads are running.
C3_NoTwoSwitchAudioThreads ==
    \A p, q \in Callers :
        (p # q /\ pc[p] = "sw_store_handle" /\ pc[q] = "sw_store_handle")
        => ~({lthr[p], lthr[q]} \subseteq RunningAudio)

\* C4: in the step in which stop_capture returns, no audio thread is running.
C4_StopReturnsAfterAudioEnded ==
    [][\A p \in Callers :
          (op[p] = "stop" /\ Finishing(p)) => RunningAudio' = {}]_vars

\* C5: in the step in which stop_capture returns, whatever its result,
\* CAPTURE_RUNNING is false and the three slots are empty.
C5_StopLeavesNothing ==
    [][\A p \in Callers :
          (op[p] = "stop" /\ Finishing(p))
          => (~running' /\ control' = "none" /\ stopFlag' = None /\ threadHandle' = None)]_vars

\* C6: a start_capture call that fails in start_wgc_capture returns from
\* the point right after its running check, and neither its check nor its
\* failing step changes the running flag, a slot, a video session or an
\* audio thread: the call has committed nothing.
C6_FailedStartCommitsNothing ==
    [][\A p \in Callers :
          /\ (pc[p] = "idle" /\ pc'[p] = "start_wgc") => (~running /\ UNCHANGED shared)
          /\ (op[p] = "start" /\ Finishing(p) /\ result'[p] # "Ok")
             => (pc[p] = "start_wgc" /\ UNCHANGED shared)]_vars

\* A start failed to create its capture handle and no session is active.
C6_Witness ==
    \E p \in Callers :
        /\ op[p] = "start" /\ pc[p] = "done" /\ result[p] = "StartFailed"
        /\ ~running /\ control = "none" /\ stopFlag = None /\ threadHandle = None
        /\ LiveVideo = 0 /\ RunningAudio = {}

FullyStopped == ~running /\ control = "none" /\ RunningAudio = {}
FullySwitched == running /\ control = "live" /\ Cardinality(RunningAudio) = 1

\* C7: a switch_capture_target call that fails after its running check
\* leaves the controller fully stopped or fully switched.
C7_FailedSwitchIsClean ==
    [][\A p \in Callers :
          (op[p] = "switch" /\ Finishing(p) /\ result'[p] \notin {"Ok", "NotRunning"})
          => (FullyStopped' \/ FullySwitched')]_vars

\* C8: when switch_capture_target returns TargetNotFound, the prior video
\* session has been stopped and no audio thread is running.
C8_SwitchToMissingTarget ==
    [][\A p \in Callers :
          (op[p] = "switch" /\ Finishing(p) /\ result'[p] = "TargetNotFound")
          => (control' = "none" /\ LiveVideo' = 0 /\ RunningAudio' = {})]_vars

\* C9: switch_capture_target invoked while CAPTURE_RUNNING is false returns
\* the NotRunning error in that very step, and the step changes neither the
\* running flag, nor the three slots, nor any video session or audio thread.
C9_SwitchWhileStoppedRejected ==
    [][\A p \in Callers :
          (pc[p] = "idle" /\ op'[p] = "switch" /\ ~running)
          => (pc'[p] = "done" /\ result'[p] = "NotRunning" /\ UNCHANGED shared)]_vars

\* A switch was rejected while nothing was running.
C9_Witness ==
    \E p \in Callers :
        /\ op[p] = "switch" /\ pc[p] = "done" /\ result[p] = "NotRunning"
        /\ ~running /\ control = "none" /\ stopFlag = None /\ threadHandle = None

\* stop_capture command q is past its store to CAPTURE_RUNNING and has not
\* yet stopped the video session it is tearing down.
TearingDown(q) ==
    /\ pc[q] \in {"st_take_flag", "st_take_handle", "st_join", "st_take_control",
                  "st_stop_video"}
    /\ (control # "none" \/ lctl[q] # "none")

\* C10: a start_capture issued while a stop_capture is tearing a session
\* down is rejected.
C10_StartDuringTeardownRejected ==
    [][\A p \in Callers :
          (pc[p] = "idle" /\ op'[p] = "start" /\ \E q \in Callers \ {p} : TearingDown(q))
          => (pc'[p] = "done" /\ result'[p] = "AlreadyRunning")]_vars

\* C11: a switch_capture_target call that passed its running check returns
\* only after the old audio thread was signalled and joined, on every path:
\* at its return the only audio thread that may be running is the one this
\* call spawned and stored, and none at all if the call returned before
\* spawning one.
C11_SwitchAlwaysStopsOldAudio ==
    [][\A p \in Callers :
          (op[p] = "switch" /\ Finishing(p) /\ result'[p] # "NotRunning")
          => RunningAudio' \subseteq
                (IF pc[p] = "sw_stop_video" THEN {} ELSE {threadHandle'})]_vars

\* capture-stopped is emitted by on_closed and by nothing else.
CaptureStoppedEmitted ==
    OnClosedStored \/ OnClosedLeaked \/ \E p \in Callers : OnClosedLocal(p)

\* C13: every step that ends a live video session leaves CAPTURE_RUNNING
\* false and emits capture-stopped.
C13_SessionEndClearsAndNotifies ==
    [][LiveVideo' < LiveVideo => (~running' /\ CaptureStoppedEmitted)]_vars

\* capture-audio is emitted from the capture loop of an audio thread.
EmitsCaptureAudio == {a \in AudioIds : ast[a] = "loop"}

\* C14: when stop_capture returns, no audio thread is left in a capture
\* loop, so that no capture-audio event can follow.
C14_NoAudioEventsAfterStop ==
    [][\A p \in Callers :
          (op[p] = "stop" /\ Finishing(p)) => EmitsCaptureAudio' = {}]_vars

\* C20: start_capture or switch_capture_target has not returned Ok while
\* the audio thread it stored has ended without a stop request, that is,
\* because both loopback tiers failed.
C20_AudioFailureSurfaced ==
    \A p \in Callers :
        (op[p] \in {"start", "switch"} /\ pc[p] = "done" /\ result[p] = "Ok"
         /\ threadHandle # None)
        => ~(ast[threadHandle] = "exited" /\ ~aflag[threadHandle])

\* --------------------------------------------- properties of the audio thread
Tier1Setup == {"t1_mode", "t1_format", "t1_activate", "t1_info", "t1_init"}
Tier1Loop == {"t1_loop", "t1_wait", "t1_read"}
Tier2 == {"t2_format", "t2_init", "t2_loop", "t2_wait", "t2_read", "t2_teardown"}
Tier2Loop == {"t2_loop", "t2_wait", "t2_read"}
LogHas(k, a) ==
    \E i \in 1..Len(thread.log) : thread.log[i].ev = k /\ thread.log[i].arg = a
LogCount(k) == Cardinality({i \in 1..Len(thread.log) : thread.log[i].ev = k})

\* C15: a step of process loopback that leaves its set-up other than to the
\* next set-up step or the capture loop leads to the fallback, which leads
\* to regular loopback; regular loopback is entered from the fallback only,
\* with no process-loopback stream ever started; and once the process
\* loopback loop runs, the thread stays in it until it tears down and
\* returns.
C15_FallbackOnlyBeforeLoop ==
    [][/\ (thread.tpc \in Tier1Setup /\ thread'.tpc \notin Tier1Setup \cup {"t1_loop"})
          => thread'.tpc = "fallback"
       /\ (thread.tpc = "fallback" /\ thread'.tpc # thread.tpc)
          => thread'.tpc = "t2_format"
       /\ (thread'.tpc \in Tier2 /\ thread.tpc \notin Tier2)
          => (thread.tpc = "fallback" /\ ~LogHas("stream", "start"))
       /\ (thread.tpc \in Tier1Loop \cup {"t1_teardown"})
          => thread'.tpc \in Tier1Loop \cup {"t1_teardown", "returned"}]_vars

\* Regular loopback is capturing after process loopback was activated and
\* then failed in its step 3.
C15_Witness ==
    /\ thread.tpc \in Tier2Loop
    /\ LogHas("wasapi-info", "process")
    /\ LogHas("wasapi-info", "fallback")

\* C16: a thread that reported the fallback has emitted exactly one
\* wasapi-info event.
C16_OneInfoOnFallback ==
    LogHas("wasapi-info", "fallback") => LogCount("wasapi-info") = 1

\* C17: the mode and the process id of process loopback, once chosen, are
\* INCLUDE and target_process_id when that is nonzero, EXCLUDE and the
\* application's own id when it is zero, whichever command spawned the thread.
C17_ModeFromTargetProcessId ==
    (thread.plMode # <<>>)
    => /\ thread.spawnedBy \in {"start", "switch"}
       /\ thread.plMode = IF thread.cmdPid # 0
                          THEN <<"INCLUDE", thread.cmdPid>>
                          ELSE <<"EXCLUDE", SelfPid>>

\* A thread spawned by switch_capture_target for a nonzero process id runs
\* process loopback in INCLUDE mode.
C17_Witness ==
    /\ thread.spawnedBy = "switch" /\ thread.cmdPid = 1
    /\ thread.plMode = <<"INCLUDE", 1>>
    /\ thread.tpc \in Tier1Loop

\* C18: once the stop flag is set the thread returns and its join returns;
\* and a capture loop is left only with the stop flag set.
C18_StopFlagEndsThread ==
    /\ thread.stopReq ~> thread.joined
    /\ [][(/\ thread.tpc \in Tier1Loop \cup Tier2Loop
           /\ thread'.tpc \notin Tier1Loop \cup Tier2Loop)
          => thread.stopReq]_vars

\* A thread that captured in process loopback was stopped and joined.
C18_Witness ==
    /\ thread.joined /\ thread.tret = "Ok"
    /\ LogHas("stream", "reset") /\ LogCount("capture-audio") > 0

\* The calls the thread made after it started its stream, events left out.
TeardownCalls ==
    LET l == thread.log
        from == CHOOSE i \in 1..Len(l) : l[i].ev = "stream" /\ l[i].arg = "start"
    IN  SelectSeq(SubSeq(l, from + 1, Len(l)), LAMBDA e : e.ev # "capture-audio")

\* C19: a thread that ran a capture loop and returned has made, after the
\* loop, a reset, then a stop, then only releases of handles and objects,
\* and last the COM uninitialization.
C19_TeardownOrder ==
    (thread.tpc = "returned" /\ LogHas("stream", "start"))
    => LET t == TeardownCalls
       IN  /\ Len(t) >= 4
           /\ t[1].ev = "stream" /\ t[1].arg = "reset"
           /\ t[2].ev = "stream" /\ t[2].arg = "stop"
           /\ \A i \in 3..(Len(t) - 1) : t[i].ev \in {"handle", "release"}
           /\ t[Len(t)].ev = "com" /\ t[Len(t)].arg = "CoUninitialize"

\* C12: a frame whose buffer, compression or emission failed makes
\* on_frame_arrived return Ok to the capture library all the same.
C12_FrameFailureSuppressed ==
    (frame.outcome \in {"buffer failed", "compress failed", "emit failed"})
    => frame.ret = "Ok"

\* ------------------------------------------------ properties of the target id
\* The ids of the form window:<integer handle> or monitor:<non-negative
\* integer index>.
WellFormed(t) ==
    /\ Len(t) = 3
    /\ t[2] = ":"
    /\ \/ t[1] = "window" /\ t[3] \in {"-1", "0", "1", "2"}
       \/ t[1] = "monitor" /\ t[3] \in {"0", "1", "2"}

\* The steps in which a command resolves the target id t.
ResolvesTarget(p, t) == StartWgc(p, t) \/ SwWgc(p, t)

Wrappers ==
    (IF control # "none" THEN 1 ELSE 0) + Cardinality({p \in Callers : lctl[p] # "none"})

\* The step control.stop_capture() of stop_capture or switch_capture_target.
StopsVideo(p) == pc[p] \in {"st_stop_video", "sw_stop_video"} /\ pc'[p] # pc[p]

\* C22: a command stops only a handle it has taken out of the slot, the stop
\* consumes that handle, and handles are never duplicated (a new one
\* appears only when start_wgc_capture creates it), so no handle is stopped
\* twice, in any interleaving of the commands.
C22_HandleStoppedAtMostOnce ==
    [][/\ \A p \in Callers :
             StopsVideo(p)
             => /\ lctl[p] # "none" /\ lctl'[p] = "none"
                /\ control' = control
                /\ Wrappers' = Wrappers - 1
       /\ Wrappers' > Wrappers
          => \E p \in Callers :
                /\ pc[p] \in {"start_wgc", "sw_wgc"}
                /\ lctl[p] = "none" /\ lctl'[p] = "live"
                /\ Wrappers' = Wrappers + 1]_vars

\* One command is about to stop the handle it took while another has been
\* past the slot and found it empty.
C22_Witness ==
    \E p, q \in Callers :
        /\ p # q
        /\ pc[p] = "st_stop_video" /\ lctl[p] = "live"
        /\ op[q] = "switch" /\ pc[q] = "sw_take_flag" /\ lctl[q] = "none"

\* ------------------------------------------------ properties of the packets
\* The capture-audio events the thread has emitted, in order.
Emitted == SelectSeq(thread.log, LAMBDA e : e.ev = "capture-audio")

\* C23: the i-th capture-audio event carries the i-th packet the OS
\* delivered and nothing else, and every delivered packet has either
\* produced its event or is still waiting in the endpoint buffer, in both
\* tiers.
C23_OneEventPerPacket ==
    /\ \A i \in 1..Len(Emitted) : Emitted[i].arg = <<i>>
    /\ Len(Emitted) + Len(thread.avail) = thread.arrived
    /\ \A i \in 1..Len(thread.avail) : thread.avail[i] = Len(Emitted) + i

\* Regular loopback has emitted an event for each of two packets.
C23_Witness ==
    /\ thread.tpc \in Tier2Loop
    /\ Len(Emitted) >= 2 /\ Len(Emitted) = thread.arrived

\* C23 as stated: every packet delivered while the thread was in its
\* capture loop has produced its event once the thread has returned.
C23_AsStated ==
    (thread.tpc = "returned") => Len(Emitted) = thread.arrived

\* ------------------------------------------------- properties of the frames
\* C24: the effective rate lies in 1..60, and two consecutive capture-frame
\* events of a session are at least 1000/rate ms apart (the quotient taken
\* exactly: gap * rate >= 1000).
C24_MinFrameInterval ==
    /\ frame.fps # 0 => frame.fps \in 1..60
    /\ frame.emit_gap # -1 => frame.emit_gap * frame.fps >= 1000

\* ------------------------------------------------ properties of the downmix
\* C25: downmix_to_stereo returns 2 * frame_count samples; for one channel
\* both samples of frame i are input sample i; for three channels or more
\* they are the input samples i * channels and i * channels + 1; for two
\* channels the result is the input.
C25_DownmixToStereo ==
    (call.fn = "downmix_to_stereo")
    => LET in == call.all_samples
           C == call.channels
           F == call.frame_count
           out == call.ret
       IN  /\ Len(out) = 2 * F
           /\ C = 1 => \A i \in 0..(F - 1) :
                           out[2 * i + 1] = in[i + 1] /\ out[2 * i + 2] = in[i + 1]
           /\ C >= 3 => \A i \in 0..(F - 1) :
                           out[2 * i + 1] = in[i * C + 1] /\ out[2 * i + 2] = in[i * C + 2]
           /\ C = 2 => out = in

\* Two frames of four-channel audio whose first three channels differ have
\* been downmixed.
C25_Witness ==
    /\ call.fn = "downmix_to_stereo"
    /\ call.channels = 4 /\ call.frame_count = 2
    /\ call.all_samples[1] = 1 /\ call.all_samples[2] = 2 /\ call.all_samples[3] = 1
    /\ call.ret = <<1, 2, 2, 1>>

\* ------------------------------------------- properties of the enumeration
\* The windows of a call that were reported with the handle h.
Listed(h) ==
    \E k \in 1..Len(call.ret) :
        call.ret[k].target_type = "window" /\ call.ret[k].hwnd = h

\* C26: no window target carries a process name that, case ignored, is the
\* application's own name; and a window that passes every other test and
\* whose process name, case ignored, is not the application's own name is
\* listed.
C26_OwnWindowsOnlySkipped ==
    (call.fn = "enumerate_capture_targets")
    => /\ \A k \in 1..Len(call.ret) :
             call.ret[k].target_type = "window"
             => ToLowercase(call.ret[k].process_name) # ToLowercase(HostName)
       /\ \A h \in 1..Len(call.windows) :
             LET w == call.windows[h] IN
             (/\ w.title \notin {"", "Program Manager"}
              /\ is_capturable_window(w)
              /\ ToLowercase(w.process_name) # ToLowercase(HostName))
             => Listed(h)

\* C27: a window that is reported cloaked, or that has the tool-window style
\* without the app-window style, or that is not visible, or whose process is
\* on the list of background processes, is not listed.
C27_HiddenWindowsNotListed ==
    (call.fn = "enumerate_capture_targets")
    => \A h \in 1..Len(call.windows) :
          LET w == call.windows[h] IN
          (\/ w.cloaked = "yes"
           \/ (w.tool /\ ~w.app)
           \/ ~w.visible
           \/ ToLowercase(w.process_name) \in BACKGROUND_PROCESSES)
          => ~Listed(h)

\* A call that listed one window and left out a tool window reported after
\* it.
C27_Witness ==
    /\ call.fn = "enumerate_capture_targets"
    /\ Len(call.windows) = 2
    /\ Listed(1) /\ ~Listed(2)
    /\ call.windows[2].tool /\ ~call.windows[2].app
    /\ call.windows[2].visible /\ call.windows[2].cloaked = "no"

\* ------------------------------------------------- properties of the stubs
\* C28: every call of a command of mod stub returns the NotSupported error,
\* whatever its arguments and whatever was called before, and leaves the
\* statics, the sessions and the threads as they were.
C28_StubsFail ==
    [][(call'.fn \in StubCommands)
       => /\ call'.ret = "NotSupported"
          /\ UNCHANGED <<sessionVars, thread, frame>>]_vars

\* stop_capture of mod stub was called right after start_capture of mod stub.
C28_Witness ==
    /\ call.fn = "stub::stop_capture"
    /\ call.before = "stub::start_capture"
    /\ call.ret = "NotSupported"

\* ------------------------------------------- properties of the order of stop
\* The successive positions of stop_capture.
StopOrder ==
    {<<"idle", "st_take_flag">>, <<"st_take_flag", "st_take_handle">>,
     <<"st_take_handle", "st_join">>, <<"st_take_handle", "st_take_control">>,
     <<"st_join", "st_take_control">>, <<"st_take_control", "st_stop_video">>,
     <<"st_take_control", "done">>, <<"st_stop_video", "done">>}

\* C29: stop_capture clears the running flag, then sets the audio stop flag,
\* then joins the audio thread whose handle it took, then stops the video
\* handle; the join returns only once that thread has ended, the video
\* handle is stopped only with no join outstanding, and an error is
\* returned only from stopping the video handle.
C29_StopOrder ==
    [][\A p \in Callers :
          (op'[p] = "stop" /\ pc'[p] # pc[p])
          => /\ <<pc[p], pc'[p]>> \in StopOrder
             /\ pc[p] = "idle" => ~running'
             /\ pc[p] = "st_join" => ast[lthr[p]] = "exited"
             /\ pc[p] \in {"st_take_control", "st_stop_video"} => lthr[p] = None
             /\ result'[p] \notin {"none", "Ok"} => pc[p] = "st_stop_video"]_vars

\* stop_capture is joining an audio thread that has ended while the video
\* handle is still in its slot, not stopped.
C29_Witness ==
    \E p \in Callers :
        /\ op[p] = "stop" /\ pc[p] = "st_join"
        /\ ast[lthr[p]] = "exited"
        /\ control = "live"

\* ------------------------------------------- properties of the packet reads
\* The thread ends the handling of a signal and goes back to its loop test
\* and its wait.
EndsHandling ==
    /\ thread.tpc \in {"t1_read", "t2_read"}
    /\ thread'.tpc \in {"t1_loop", "t2_loop"}

\* It does so because the read of a waiting packet returned an error.
ReadFailed ==
    /\ EndsHandling
    /\ thread.avail # <<>>
    /\ thread'.log = thread.log

\* C30: in both tiers, when the thread ends the handling of a signal, other
\* than on a read error, no delivered packet is left in the endpoint buffer.
C30_ReadsUntilEmpty ==
    [][(EndsHandling /\ ~ReadFailed) => thread'.avail = <<>>]_vars

\* ------------------------------------- properties of the reach of the controller
\* An audio thread the controller can still stop and join: its stop flag is
\* in AUDIO_STOP_FLAG or is set already, and its join handle is in
\* AUDIO_THREAD_HANDLE or in the local of a command that is about to store
\* it or to join it.
Controllable(a) ==
    /\ stopFlag = a \/ aflag[a]
    /\ threadHandle = a \/ \E p \in Callers : lthr[p] = a

\* C31: every running audio thread is controllable.
C31_RunningAudioControllable ==
    \A a \in RunningAudio : Controllable(a)

\* ------------------------------------------- properties of the OS-driven close
\* C32: the step in which on_closed runs (and emits capture-stopped) leaves
\* every running audio thread with its stop flag set, so that the thread
\* leaves its capture loop and emits no further capture-audio event.
C32_CloseStopsAudio ==
    [][CaptureStoppedEmitted => \A a \in RunningAudio' : aflag'[a]]_vars

\* --------------------------------------------- properties of capture_audio
\* C33: a session started with capture_audio = false has no audio thread,
\* whether from start_capture or from a later switch_capture_target, and so
\* no wasapi-info and no capture-audio event.
C33_NoAudioUnlessRequested ==
    (~thread.capture_audio)
    => /\ thread.tpc = "unspawned"
       /\ LogCount("wasapi-info") = 0
       /\ LogCount("capture-audio") = 0

\* -------------------------------------------- properties of the slots at rest
\* No command is between its call and its return.
AtRest == \A p \in Callers : pc[p] \in {"idle", "done"}

\* C34: with no command in progress, CAPTURE_RUNNING is true exactly when
\* CAPTURE_CONTROL holds a handle, and AUDIO_STOP_FLAG holds a flag exactly
\* when AUDIO_THREAD_HANDLE holds a join handle.
C34_SlotsConsistentAtRest ==
    AtRest
    => /\ running <=> (control # "none")
       /\ (stopFlag # None) <=> (threadHandle # None)

\* ------------------------------------------------ properties of the blocking
\* The mutexes a command holds.
Held(p) == {m \in Mutexes : holder[m] = p}

\* handle.join() of the command p can never return: the thread is in its
\* capture loop, its stop flag is not set, and the flag is no longer in
\* AUDIO_STOP_FLAG, where alone a command could find it to set it.
JoinBlockedForever(p) ==
    /\ pc[p] \in {"st_join", "sw_join"}
    /\ ast[lthr[p]] = "loop"
    /\ ~aflag[lthr[p]]
    /\ stopFlag # lthr[p]

\* C35: a command holds at most one of the three mutexes at a time, and no
\* command waits in a join that can never return.
C35_NoDeadlock ==
    \A p \in Callers :
        /\ Cardinality(Held(p)) <= 1
        /\ ~JoinBlockedForever(p)

\* The first half of C35 alone.
AtMostOneMutexHeld == \A p \in Callers : Cardinality(Held(p)) <= 1

\* ------------------------------------- properties of the thread's resources
\* The number of calls k(a), or events k with payload a, the thread has made.
LogCountOf(k, a) ==
    Cardinality({i \in 1..Len(thread.log) : thread.log[i] = Ev(k, a)})

\* initialize_mta() of the wasapi crate is CoInitializeEx(None,
\* COINIT_MULTITHREADED) as well.
ComInitializations ==
    LogCountOf("com", "initialize_mta") + LogCountOf("com", "CoInitializeEx")

\* C36: when the audio thread has returned, by whatever path, it has called
\* CoUninitialize as often as it initialized COM, and CloseHandle as often
\* as CreateEventW gave it an event handle.
C36_ResourcesBalancedAtExit ==
    thread.tpc = "returned"
    => /\ ComInitializations = LogCountOf("com", "CoUninitialize")
       /\ LogCountOf("handle", "CreateEventW") = LogCountOf("handle", "CloseHandle")

\* The handles alone, for the thread that ran tier 1 to its orderly end.
HandlesBalancedOnOrderlyExit ==
    (thread.tpc = "returned" /\ LogCountOf("com", "CoUninitialize") > 0)
    => LogCountOf("handle", "CreateEventW") = LogCountOf("handle", "CloseHandle")


\* ------------------------------------------ properties of the activation
\* C37: the completion handler never calls SetEvent on the activation event
\* after CloseHandle(event).
C37_NoSignalOnClosedEvent == LogCountOf("SetEvent", "closed") = 0

====
